---- MODULE Spec2Model ----
(***************************************************************************)
(* Moodle-Stalker: the notification polling handler                        *)
(* (src/src/moodle/moodle_notification_handler.py) and the notification    *)
(* sender (src/src/notification/notification_sender.py).                   *)
(*                                                                         *)
(* A polling cycle is one call of fetch_newest_notification followed, when *)
(* a notification is returned, by one call of NotificationSender.send.     *)
(* The position of each cycle is kept in pc; the remote calls, the sleeps  *)
(* and the cursor assignment are the places where a cycle can be observed. *)
(***************************************************************************)
EXTENDS Integers, Sequences, FiniteSets, TLC

\* ------------------------------------------------------------------ bounds
\* Largest notification id the remote hands out in the model.
MaxId == 7
\* Largest number of consecutive failures of the remote call in one
\* invocation of fetch_latest_notification.
MaxFails == 2
\* Largest number of passes through the except branch of
\* fetch_newest_notification in one cycle.
MaxOuter == 1
\* Largest notification id the remote hands out to interleaved cycles.
MaxConcId == 3

Ids == 1..MaxId
ConcIds == 1..MaxConcId
\* Threads that may run a polling cycle; the driver is the single thread 1.
Cycles == {1, 2}
Driver == {1}
\* Values of the ENABLED keys of the configuration: 0 or 1, 1 enables a sink.
FlagValues == {0, 1}

\* ------------------------------------------------------------- Optional[int]
None == <<>>
Some(n) == <<n>>

\* ------------------------------------------------------------ notifications
\* What fetch_latest_notification can hand back: None, or the first element
\* of the "notifications" list, which is a dict with an integer id, a dict
\* without an id, an empty dict, or something that is no dict at all.
NoneNotif == [kind |-> "None", id |-> 0]
EmptyDict == [kind |-> "EmptyDict", id |-> 0]
NoIdNotif == [kind |-> "NoId", id |-> 0]
NonDict == [kind |-> "NonDict", id |-> 0]
IdNotif(n) == [kind |-> "Id", id |-> n]
Elements == {EmptyDict, NoIdNotif, NonDict} \cup {IdNotif(n) : n \in Ids}

\* A response of api.get_popup_notifications: the "notifications" key is
\* missing, holds an empty list, or holds a list whose first element is first.
MissingList == [list |-> "missing", first |-> NoneNotif]
EmptyList == [list |-> "empty", first |-> NoneNotif]
ListOf(e) == [list |-> "some", first |-> e]
Responses == {MissingList, EmptyList} \cup {ListOf(e) : e \in Elements}
NoResponse == [list |-> "none", first |-> NoneNotif]

\* ----------------------------------------------------- fetch_latest (65-86)
InitialDelay == 60

NextDelayDoubled(d) == d * 2
NextDelay(d) == d + 2

\* The value fetch_latest_notification returns for a successful remote call.
FetchLatestResult(resp) == IF resp.list = "some" THEN resp.first ELSE NoneNotif

\* ----------------------------------------------------- fetch_newest (88-132)
\* Truth value of the fetched notification in "if notification := ...".
TruthyAlways(n) == TRUE
Truthy(n) == n.kind \notin {"None", "EmptyDict"}

\* notification.get exists only on a dict.
HasGet(n) == n.kind \notin {"None", "NonDict"}

IdMissingNever(n) == FALSE
IdMissing(n) == n.kind = "NoId"

IsNewerOrEqual(n, c) == n >= c
IsNewer(n, c) == n > c

\* The branch fetch_newest_notification takes for notification n under
\* cursor c; "Raise" is the exception that reaches the except branch.
Verdict(n, c) ==
  IF ~Truthy(n) THEN "Absent"
  ELSE IF ~HasGet(n) THEN "Raise"
  ELSE IF IdMissing(n) THEN "Absent"
  ELSE IF c = None THEN "First"
  ELSE IF IsNewer(n.id, c[1]) THEN "New"
  ELSE "Stale"

\* The branches that assign last_notification_id, and the value returned.
AssignsAlso(v) == v \in {"First", "New", "Stale"}
AssignsNever(v) == FALSE
Assigns(v) == v \in {"First", "New"}

ReturnsAlways(v, n) == IF v = "Absent" THEN NoneNotif ELSE n
Returns(v, n) == IF v \in {"First", "New"} THEN n ELSE NoneNotif

\* ------------------------------------------------------------------- sender
\* Sender identities handed to the Discord webhook.
DefaultIdentity ==
  [fullname |-> "EvickaStudio",
   picture_url |-> "https://avatars.githubusercontent.com/u/68477970"]
NoIdentity == [fullname |-> "", picture_url |-> ""]
UserInfo == [fullname |-> "Some User", profileimageurl |-> "https://moodle/user.png"]
NoUser == [fullname |-> "", profileimageurl |-> ""]

\* user_id_from: the user's record, or None when no user is found or the
\* remote call raised (the exception is caught and logged).
user_id_from(out) == IF out = "found" THEN UserInfo ELSE NoUser

EnabledAlways(state) == TRUE
Enabled(state) == state = 1

\* The except branch of send: log, then re-raise.
SendBodySwallows(failed) == FALSE
SendBodyRaises(failed) == failed

VARIABLES
  handler,               \* "none", "ready" or "failed": the handler object
  logged_in,
  last_notification_id,  \* the cursor: None or Some(id)
  pushbullet_state,      \* NotificationSender.pushbullet_state
  webhook_state,         \* NotificationSender.webhook_state
  pc,                    \* position of each cycle
  retry_delay,           \* fetch_latest_notification's retry_delay
  outer_delay,           \* fetch_newest_notification's retry_delay
  sleeps,                \* delays slept in this invocation of fetch_latest
  outer_sleeps,          \* delays slept in fetch_newest's except branch
  calls,                 \* remote calls made in this invocation of fetch_latest
  response,              \* the response of the successful remote call
  latest,                \* value returned by fetch_latest_notification
  cursor0,               \* the cursor when the cycle started
  verdict,               \* branch taken by fetch_newest_notification
  result,                \* value returned by fetch_newest_notification
  sent,                  \* what the cycle's send call did
  lastDelivered,         \* id of the notification a sink accepted last
  deliveredEarlier,      \* lastDelivered was delivered before the last restart
  fresh,                 \* no cycle of this handler has ended in First or New
  config,                \* which moodle keys the configuration read at start holds
  lastReturned,          \* id fetch_newest_notification returned last
  overlapped,            \* a cycle was started while another was in flight
  decreased,             \* an assignment has lowered the cursor
  duplicated             \* an id was returned twice in a row

vars == <<handler, logged_in, last_notification_id, pushbullet_state,
          webhook_state, pc, retry_delay, outer_delay, sleeps, outer_sleeps,
          calls, response, latest, cursor0, verdict, result, sent,
          lastDelivered, deliveredEarlier, fresh, config, lastReturned,
          overlapped, decreased, duplicated>>

cycleVars == <<pc, retry_delay, outer_delay, sleeps, outer_sleeps, calls,
               response, latest, cursor0, verdict, result, sent>>
senderVars == <<pushbullet_state, webhook_state>>
worldVars == <<lastDelivered, deliveredEarlier, fresh>>
histVars == <<config, lastReturned, overlapped, decreased, duplicated>>


\* -------------------------------------------------------------- construction
\* The cursor a new handler starts with.
InitialCursorRestored == lastDelivered
InitialCursor == None

ConfigNeverRaises(present) == FALSE

\* _get_config_value: a missing (or empty) value raises ValueError.
ConfigRaises(present) == ~present

\* __init__ of the handler for a configuration whose three moodle keys are
\* present or not, an outcome of api.login ("ok", "rejected": a falsy
\* return, or "raise") and an outcome of api.get_user_id ("ok" or "raise").
\* ok: no exception left __init__; logged: the value of logged_in.
HandlerInit(url, user, pass, loginOut, uidOut) ==
  LET urlRaised == ConfigRaises(url)
      loginReached == ~urlRaised
      credRaised == loginReached /\ (ConfigRaises(user) \/ ConfigRaises(pass))
      loginCalled == loginReached /\ ~credRaised
      loginRaised == loginCalled /\ loginOut = "raise"
      logged == loginCalled /\ loginOut = "ok"
      uidCalled == loginCalled /\ ~loginRaised
      uidRaised == uidCalled /\ uidOut = "raise"
  IN [ok |-> ~(urlRaised \/ credRaised \/ loginRaised \/ uidRaised),
      logged |-> logged]

NoSend ==
  [called |-> FALSE, useridfrom |-> None, pbCalls |-> 0, pbFailed |-> FALSE,
   lookups |-> 0, lookupFailed |-> FALSE, dcCalls |-> 0, dcFailed |-> FALSE,
   identity |-> NoIdentity, raised |-> FALSE, logged |-> FALSE,
   order |-> <<>>]

\* No configuration has been read.
NoConfig == [url |-> FALSE, user |-> FALSE, pass |-> FALSE]

Init ==
  /\ handler = "none"
  /\ logged_in = FALSE
  /\ last_notification_id = None
  /\ pushbullet_state = 0
  /\ webhook_state = 0
  /\ pc = [p \in Cycles |-> "Idle"]
  /\ retry_delay = [p \in Cycles |-> InitialDelay]
  /\ outer_delay = [p \in Cycles |-> InitialDelay]
  /\ sleeps = [p \in Cycles |-> <<>>]
  /\ outer_sleeps = [p \in Cycles |-> <<>>]
  /\ calls = [p \in Cycles |-> 0]
  /\ response = [p \in Cycles |-> NoResponse]
  /\ latest = [p \in Cycles |-> NoneNotif]
  /\ cursor0 = [p \in Cycles |-> None]
  /\ verdict = [p \in Cycles |-> "None"]
  /\ result = [p \in Cycles |-> NoneNotif]
  /\ sent = [p \in Cycles |-> NoSend]
  /\ lastDelivered = None
  /\ deliveredEarlier = FALSE
  /\ fresh = FALSE
  /\ config = NoConfig
  /\ lastReturned = None
  /\ overlapped = FALSE
  /\ decreased = FALSE
  /\ duplicated = FALSE

\* All cycles back at their initial position (no call in progress).
ResetCycles ==
  /\ pc' = [p \in Cycles |-> "Idle"]
  /\ retry_delay' = [p \in Cycles |-> InitialDelay]
  /\ outer_delay' = [p \in Cycles |-> InitialDelay]
  /\ sleeps' = [p \in Cycles |-> <<>>]
  /\ outer_sleeps' = [p \in Cycles |-> <<>>]
  /\ calls' = [p \in Cycles |-> 0]
  /\ response' = [p \in Cycles |-> NoResponse]
  /\ latest' = [p \in Cycles |-> NoneNotif]
  /\ cursor0' = [p \in Cycles |-> None]
  /\ verdict' = [p \in Cycles |-> "None"]
  /\ result' = [p \in Cycles |-> NoneNotif]
  /\ sent' = [p \in Cycles |-> NoSend]

\* Process start: MoodleNotificationHandler.__init__ and the ENABLED flags
\* NotificationSender.__init__ reads from the configuration.
Construct(url, user, pass, loginOut, uidOut, pb, wh) ==
  /\ handler = "none"
  /\ LET r == HandlerInit(url, user, pass, loginOut, uidOut)
     IN /\ handler' = IF r.ok THEN "ready" ELSE "failed"
        /\ logged_in' = r.logged
        /\ last_notification_id' = InitialCursor
        /\ pushbullet_state' = IF r.ok THEN pb ELSE 0
        /\ webhook_state' = IF r.ok THEN wh ELSE 0
        /\ fresh' = r.ok
  /\ config' = [url |-> url, user |-> user, pass |-> pass]
  /\ lastReturned' = None
  /\ overlapped' = FALSE
  /\ decreased' = FALSE
  /\ duplicated' = FALSE
  /\ UNCHANGED <<cycleVars, lastDelivered, deliveredEarlier>>

\* The hosting process is stopped (at any point of a cycle); its objects are
\* gone. What the sinks received stays delivered.
Stop ==
  /\ handler # "none"
  /\ handler' = "none"
  /\ logged_in' = FALSE
  /\ last_notification_id' = None
  /\ pushbullet_state' = 0
  /\ webhook_state' = 0
  /\ ResetCycles
  /\ deliveredEarlier' = (lastDelivered # None)
  /\ fresh' = FALSE
  /\ config' = NoConfig
  /\ lastReturned' = None
  /\ overlapped' = FALSE
  /\ decreased' = FALSE
  /\ duplicated' = FALSE
  /\ UNCHANGED lastDelivered


\* --------------------------------------------------------- the polling cycle
\* fetch_newest_notification is entered (line 92) and calls
\* fetch_latest_notification, which sets its own retry_delay (line 69).
StartCycle(p) ==
  /\ handler = "ready"
  /\ pc[p] = "Idle"
  /\ pc' = [pc EXCEPT ![p] = "Fetching"]
  /\ outer_delay' = [outer_delay EXCEPT ![p] = InitialDelay]
  /\ retry_delay' = [retry_delay EXCEPT ![p] = InitialDelay]
  /\ cursor0' = [cursor0 EXCEPT ![p] = last_notification_id]
  /\ overlapped' = (overlapped \/ \E q \in Cycles \ {p} : pc[q] # "Idle")
  /\ UNCHANGED <<handler, logged_in, last_notification_id, senderVars,
                 sleeps, outer_sleeps, calls, response, latest, verdict,
                 result, sent, worldVars, config, lastReturned, decreased,
                 duplicated>>

\* Where fetch_latest_notification is after the k-th failed remote call of
\* an invocation: in the sleep of its except branch, inside "while True",
\* whatever k is. (Leaving by an exception would land in the except branch
\* of fetch_newest_notification.)
AfterFailCapped(k) == IF k >= 2 THEN "OuterBackoff" ELSE "Backoff"
AfterFail(k) == "Backoff"

\* The cursor after a failed remote call: the except branch logs and
\* sleeps, it assigns nothing to the handler.
CursorCleared(c) == None
CursorAfterFail(c) == c

\* The remote call raises (lines 82-85): the failure is logged and the
\* thread sleeps for retry_delay.
RemoteFail(p) ==
  /\ pc[p] = "Fetching"
  /\ Len(sleeps[p]) < MaxFails
  /\ calls' = [calls EXCEPT ![p] = @ + 1]
  /\ sleeps' = [sleeps EXCEPT ![p] = Append(@, retry_delay[p])]
  /\ pc' = [pc EXCEPT ![p] = AfterFail(Len(sleeps[p]) + 1)]
  /\ last_notification_id' = CursorAfterFail(last_notification_id)
  /\ UNCHANGED <<handler, logged_in, senderVars,
                 retry_delay, outer_delay, outer_sleeps, response, latest,
                 cursor0, verdict, result, sent, worldVars,
                 histVars>>

\* The sleep ends (line 86) and the loop calls the remote again.
Wake(p) ==
  /\ pc[p] = "Backoff"
  /\ retry_delay' = [retry_delay EXCEPT ![p] = NextDelay(@)]
  /\ pc' = [pc EXCEPT ![p] = "Fetching"]
  /\ UNCHANGED <<handler, logged_in, last_notification_id, senderVars,
                 outer_delay, sleeps, outer_sleeps, calls, response, latest,
                 cursor0, verdict, result, sent, worldVars,
                 histVars>>

\* The remote call answers resp (lines 73-81) and fetch_latest_notification
\* returns.
RemoteSucceed(p, resp) ==
  /\ pc[p] = "Fetching"
  /\ resp.first = NonDict => Len(outer_sleeps[p]) < MaxOuter
  /\ calls' = [calls EXCEPT ![p] = @ + 1]
  /\ response' = [response EXCEPT ![p] = resp]
  /\ latest' = [latest EXCEPT ![p] = FetchLatestResult(resp)]
  /\ pc' = [pc EXCEPT ![p] = "Classifying"]
  /\ UNCHANGED <<handler, logged_in, last_notification_id, senderVars,
                 retry_delay, outer_delay, sleeps, outer_sleeps, cursor0,
                 verdict, result, sent, worldVars,
                 histVars>>

\* Lines 95-132 up to the assignment of the cursor: the fetched notification
\* is compared with last_notification_id. An exception is logged and the
\* thread sleeps for fetch_newest_notification's own retry_delay.
Classify(p) ==
  /\ pc[p] = "Classifying"
  /\ LET v == Verdict(latest[p], last_notification_id)
     IN /\ verdict' = [verdict EXCEPT ![p] = v]
        /\ pc' = [pc EXCEPT ![p] =
                    IF v = "Raise" THEN "OuterBackoff"
                    ELSE IF Assigns(v) THEN "Updating"
                    ELSE "Returned"]
        /\ result' = [result EXCEPT ![p] =
                    IF v = "Raise" \/ Assigns(v) THEN NoneNotif
                    ELSE Returns(v, latest[p])]
        /\ outer_sleeps' = [outer_sleeps EXCEPT ![p] =
                    IF v = "Raise" THEN Append(@, outer_delay[p]) ELSE @]
  /\ UNCHANGED <<handler, logged_in, last_notification_id, senderVars,
                 retry_delay, outer_delay, sleeps, calls, response, latest,
                 cursor0, sent, worldVars,
                 histVars>>

\* Lines 105 and 115: the cursor is assigned and the notification returned.
Update(p) ==
  /\ pc[p] = "Updating"
  /\ last_notification_id' = Some(latest[p].id)
  /\ result' = [result EXCEPT ![p] = Returns(verdict[p], latest[p])]
  /\ pc' = [pc EXCEPT ![p] = "Returned"]
  /\ LET returned == Returns(verdict[p], latest[p]) # NoneNotif
     IN /\ lastReturned' = IF returned THEN Some(latest[p].id)
                           ELSE lastReturned
        /\ duplicated' = (duplicated \/
                            (returned /\ lastReturned = Some(latest[p].id)))
  /\ decreased' = (decreased \/
                     (/\ last_notification_id # None
                      /\ latest[p].id < last_notification_id[1]))
  /\ UNCHANGED <<handler, logged_in, senderVars, retry_delay, outer_delay,
                 sleeps, outer_sleeps, calls, response, latest, cursor0,
                 verdict, sent, worldVars, config, overlapped>>

\* Line 132, then the while loop of fetch_newest_notification calls
\* fetch_latest_notification anew.
OuterNextDelay(d) == d + 2

OuterWake(p) ==
  /\ pc[p] = "OuterBackoff"
  /\ outer_delay' = [outer_delay EXCEPT ![p] = OuterNextDelay(@)]
  /\ retry_delay' = [retry_delay EXCEPT ![p] = InitialDelay]
  /\ sleeps' = [sleeps EXCEPT ![p] = <<>>]
  /\ calls' = [calls EXCEPT ![p] = 0]
  /\ response' = [response EXCEPT ![p] = NoResponse]
  /\ latest' = [latest EXCEPT ![p] = NoneNotif]
  /\ verdict' = [verdict EXCEPT ![p] = "None"]
  /\ pc' = [pc EXCEPT ![p] = "Fetching"]
  /\ UNCHANGED <<handler, logged_in, last_notification_id, senderVars,
                 outer_sleeps, cursor0, result, sent, worldVars,
                 histVars>>


\* ------------------------------------------------------ NotificationSender
\* The sinks in the order send calls them: the Pushbullet branch (lines
\* 62-65) comes before the Discord branch (lines 67-89).
CallOrderReversed(pbCalled, dcCalled) ==
  (IF dcCalled THEN <<"discord">> ELSE <<>>) \o
  (IF pbCalled THEN <<"pushbullet">> ELSE <<>>)
CallOrder(pbCalled, dcCalled) ==
  (IF pbCalled THEN <<"pushbullet">> ELSE <<>>) \o
  (IF dcCalled THEN <<"discord">> ELSE <<>>)

\* send (lines 60-96) for sender id uid (None when not supplied) and the
\* outcomes of the calls it may make: pbOut and dcOut are "ok" or "raise",
\* lookupOut is "found", "notfound" or "raise". The whole body is one try
\* block, so the first exception skips everything after it.
send(pb, wh, uid, pbOut, lookupOut, dcOut) ==
  LET pbCalled == Enabled(pb)
      pbRaised == pbCalled /\ pbOut = "raise"
      dcReached == ~pbRaised /\ Enabled(wh)
      lookedUp == dcReached /\ uid # None
      info == IF lookedUp THEN user_id_from(lookupOut) ELSE NoUser
      \* useridfrom_info["fullname"] on None raises TypeError (line 73)
      subscriptRaised == lookedUp /\ info = NoUser
      dcCalled == dcReached /\ ~subscriptRaised
      dcRaised == dcCalled /\ dcOut = "raise"
      failed == pbRaised \/ subscriptRaised \/ dcRaised
  IN [called |-> TRUE,
      useridfrom |-> uid,
      pbCalls |-> IF pbCalled THEN 1 ELSE 0,
      pbFailed |-> pbRaised,
      lookups |-> IF lookedUp THEN 1 ELSE 0,
      lookupFailed |-> lookedUp /\ info = NoUser,
      dcCalls |-> IF dcCalled THEN 1 ELSE 0,
      dcFailed |-> dcRaised,
      identity |-> IF ~dcCalled THEN NoIdentity
                   ELSE IF lookedUp
                     THEN [fullname |-> info.fullname,
                           picture_url |-> info.profileimageurl]
                   ELSE DefaultIdentity,
      raised |-> SendBodyRaises(failed),
      logged |-> failed,
      order |-> CallOrder(pbCalled, dcCalled)]

\* The cursor of the polling handler after a send call that found it at c
\* (c0 at the start of the cycle) and ended as r: send reads and writes no
\* cursor; the handler it holds (line 37) is used for user_id_from only.
CursorRolledBack(c, c0, r) == IF r.raised THEN c0 ELSE c
CursorAfterSend(c, c0, r) == c

\* A sink accepted the delivery.
Accepted(r) ==
  \/ r.pbCalls = 1 /\ ~r.pbFailed
  \/ r.dcCalls = 1 /\ ~r.dcFailed

\* The driver hands the returned notification to send.
Send(p, uid, pbOut, lookupOut, dcOut) ==
  /\ pc[p] = "Returned"
  /\ result[p] # NoneNotif
  /\ LET r == send(pushbullet_state, webhook_state, uid, pbOut, lookupOut, dcOut)
     IN /\ sent' = [sent EXCEPT ![p] = r]
        /\ lastDelivered' = IF Accepted(r) THEN Some(result[p].id)
                            ELSE lastDelivered
        /\ deliveredEarlier' = IF Accepted(r) THEN FALSE ELSE deliveredEarlier
        /\ last_notification_id' =
             CursorAfterSend(last_notification_id, cursor0[p], r)
  /\ pc' = [pc EXCEPT ![p] = "Dispatched"]
  /\ UNCHANGED <<handler, logged_in, senderVars,
                 retry_delay, outer_delay, sleeps, outer_sleeps, calls,
                 response, latest, cursor0, verdict, result, fresh,
                 histVars>>

\* The cycle is over: nothing was returned, or send has come back.
FinishCycle(p) ==
  /\ \/ pc[p] = "Returned" /\ result[p] = NoneNotif
     \/ pc[p] = "Dispatched"
  /\ pc' = [pc EXCEPT ![p] = "Idle"]
  /\ retry_delay' = [retry_delay EXCEPT ![p] = InitialDelay]
  /\ outer_delay' = [outer_delay EXCEPT ![p] = InitialDelay]
  /\ sleeps' = [sleeps EXCEPT ![p] = <<>>]
  /\ outer_sleeps' = [outer_sleeps EXCEPT ![p] = <<>>]
  /\ calls' = [calls EXCEPT ![p] = 0]
  /\ response' = [response EXCEPT ![p] = NoResponse]
  /\ latest' = [latest EXCEPT ![p] = NoneNotif]
  /\ cursor0' = [cursor0 EXCEPT ![p] = None]
  /\ verdict' = [verdict EXCEPT ![p] = "None"]
  /\ result' = [result EXCEPT ![p] = NoneNotif]
  /\ sent' = [sent EXCEPT ![p] = NoSend]
  /\ fresh' = (fresh /\ verdict[p] \notin {"First", "New"})
  /\ UNCHANGED <<handler, logged_in, last_notification_id, senderVars,
                 lastDelivered, deliveredEarlier, histVars>>

\* ------------------------------------------------------------ specification
SenderIds == {None, Some(1)}
CallOutcomes == {"ok", "raise"}
LookupOutcomes == {"found", "notfound", "raise"}
LoginOutcomes == {"ok", "rejected", "raise"}

Boot ==
  \E url \in BOOLEAN, user \in BOOLEAN, pass \in BOOLEAN,
     loginOut \in LoginOutcomes, uidOut \in CallOutcomes,
     pb \in FlagValues, wh \in FlagValues :
       Construct(url, user, pass, loginOut, uidOut, pb, wh)

Answer(p) == \E resp \in Responses : RemoteSucceed(p, resp)

Dispatch(p) ==
  \E uid \in SenderIds, pbOut \in CallOutcomes,
     lookupOut \in LookupOutcomes, dcOut \in CallOutcomes :
       Send(p, uid, pbOut, lookupOut, dcOut)

Step(p) ==
  \/ StartCycle(p)
  \/ RemoteFail(p)
  \/ Wake(p)
  \/ Answer(p)
  \/ Classify(p)
  \/ Update(p)
  \/ OuterWake(p)
  \/ Dispatch(p)
  \/ FinishCycle(p)

\* The driver runs the cycles one after the other on its single thread.
Next ==
  \/ Boot
  \/ Stop
  \/ \E p \in Driver : Step(p)

Spec == Init /\ [][Next]_vars

\* The same with what the retry loop needs to get anywhere: a sleep ends
\* (time.sleep returns), and a remote call that can succeed again and again
\* does succeed at some attempt.
FairSpec ==
  /\ Spec
  /\ \A p \in Driver : WF_vars(Wake(p)) /\ SF_vars(Answer(p))

\* A handler that has been constructed, used by callers that do not wait for
\* one fetch_newest_notification to return before they call it again: the
\* steps of the two invocations interleave in any order.
InitConc ==
  /\ handler = "ready"
  /\ logged_in = TRUE
  /\ last_notification_id = InitialCursor
  /\ pushbullet_state = 1
  /\ webhook_state = 1
  /\ pc = [p \in Cycles |-> "Idle"]
  /\ retry_delay = [p \in Cycles |-> InitialDelay]
  /\ outer_delay = [p \in Cycles |-> InitialDelay]
  /\ sleeps = [p \in Cycles |-> <<>>]
  /\ outer_sleeps = [p \in Cycles |-> <<>>]
  /\ calls = [p \in Cycles |-> 0]
  /\ response = [p \in Cycles |-> NoResponse]
  /\ latest = [p \in Cycles |-> NoneNotif]
  /\ cursor0 = [p \in Cycles |-> None]
  /\ verdict = [p \in Cycles |-> "None"]
  /\ result = [p \in Cycles |-> NoneNotif]
  /\ sent = [p \in Cycles |-> NoSend]
  /\ lastDelivered = None
  /\ deliveredEarlier = FALSE
  /\ fresh = TRUE
  /\ config = [url |-> TRUE, user |-> TRUE, pass |-> TRUE]
  /\ lastReturned = None
  /\ overlapped = FALSE
  /\ decreased = FALSE
  /\ duplicated = FALSE

\* The remote answers with a notification that carries an id, and both
\* sinks accept what send delivers.
AnswerConc(p) == \E n \in ConcIds : RemoteSucceed(p, ListOf(IdNotif(n)))

DispatchConc(p) == Send(p, None, "ok", "found", "ok")

StepConc(p) ==
  \/ StartCycle(p)
  \/ RemoteFail(p)
  \/ Wake(p)
  \/ AnswerConc(p)
  \/ Classify(p)
  \/ Update(p)
  \/ DispatchConc(p)
  \/ FinishCycle(p)

NextConc == \E p \in Cycles : StepConc(p)

SpecConc == InitConc /\ [][NextConc]_vars


\* ------------------------------------------------------------------- claims
\* C1: on one handler the cursor, once set, never decreases from one state
\* to the next, and it changes only in the step of a cycle whose verdict is
\* First (unset -> the fetched id) or New (the fetched id exceeds the old
\* value); steps of Stale and Absent cycles and failed fetch attempts leave
\* it as it is.
C1_CursorStep ==
  (handler = "ready" /\ handler' = "ready") =>
    /\ last_notification_id # None =>
         /\ last_notification_id' # None
         /\ last_notification_id'[1] >= last_notification_id[1]
    /\ last_notification_id' # last_notification_id =>
         \E p \in Cycles :
           /\ pc[p] = "Updating" /\ pc'[p] = "Returned"
           /\ latest[p].kind = "Id"
           /\ last_notification_id' = Some(latest[p].id)
           /\ \/ verdict[p] = "First" /\ last_notification_id = None
              \/ /\ verdict[p] = "New"
                 /\ last_notification_id # None
                 /\ latest[p].id > last_notification_id[1]

\* C1: every step of a handler keeps the cursor from decreasing and changes
\* it only as the assignment of a First or New cycle.
C1_CursorMonotone == [][C1_CursorStep]_vars

\* A New verdict has moved a set cursor up.
C1_Witness ==
  \E p \in Cycles :
    /\ pc[p] = "Returned"
    /\ verdict[p] = "New"
    /\ cursor0[p] # None
    /\ last_notification_id # None
    /\ last_notification_id[1] > cursor0[p][1]

\* C2: when fetch_newest_notification returns for a fetched notification
\* with integer id n under cursor c, its outcome is the reference
\* classifier's: c unset -> First, the notification is returned and the
\* cursor is n; n > c -> New, returned, cursor n; n <= c -> Stale, None is
\* returned and the cursor stays c. With c = 5, ids 3 and 5 are Stale and
\* id 7 is New with the cursor at 7.
C2_Outcome(p, v, returned, cursor) ==
  /\ verdict[p] = v
  /\ result[p] = (IF returned THEN latest[p] ELSE NoneNotif)
  /\ last_notification_id = cursor

\* C2: the outcome of fetch_newest_notification for an integer id is the
\* reference classifier's (First, New or Stale), for every cursor.
C2_Classifier ==
  \A p \in Cycles :
    (pc[p] = "Returned" /\ latest[p].kind = "Id") =>
      LET c == cursor0[p]
          n == latest[p].id
      IN /\ c = None => C2_Outcome(p, "First", TRUE, Some(n))
         /\ (c # None /\ n > c[1]) => C2_Outcome(p, "New", TRUE, Some(n))
         /\ (c # None /\ n <= c[1]) => C2_Outcome(p, "Stale", FALSE, c)
         /\ (c = Some(5) /\ n \in {3, 5}) => C2_Outcome(p, "Stale", FALSE, Some(5))
         /\ (c = Some(5) /\ n = 7) => C2_Outcome(p, "New", TRUE, Some(7))

\* Under cursor 5 the notification with id 7 was classified.
C2_Witness ==
  \E p \in Cycles :
    /\ pc[p] = "Returned"
    /\ cursor0[p] = Some(5)
    /\ latest[p] = IdNotif(7)
    /\ last_notification_id = Some(7)


\* C3: failure isolation in send. With both sinks enabled, a delivery of
\* one sink that raises does not keep the other sink's deliver operation
\* from being invoked in the same call: if Pushbullet's delivery raised,
\* Discord's was still invoked, and if Discord's raised, Pushbullet's was.
C3_FailureIsolation ==
  \A p \in Cycles :
    (pc[p] = "Dispatched" /\ pushbullet_state = 1 /\ webhook_state = 1) =>
      /\ sent[p].pbFailed => sent[p].dcCalls = 1
      /\ sent[p].dcFailed => sent[p].pbCalls = 1

\* C4: when send is given a sender id, Discord is enabled and the user
\* lookup fails, the Discord deliver call is still made in that call and
\* carries the default placeholder identity.
C4_LookupFailureDelivers ==
  \A p \in Cycles :
    (/\ pc[p] = "Dispatched"
     /\ webhook_state = 1
     /\ sent[p].useridfrom # None
     /\ sent[p].lookupFailed
     /\ ~sent[p].pbFailed) =>
      /\ sent[p].dcCalls = 1
      /\ sent[p].identity = DefaultIdentity

\* C5: in an invocation of fetch_latest_notification whose remote call has
\* failed k times, the sleeps made are 60, 62, ..., 60 + 2(k-1) in that
\* order, one per failed call; the next delay is 60 + 2k, so an invocation
\* starts at 60 whatever earlier invocations went through; and when the
\* call then succeeds, k + 1 remote calls were made and the value returned
\* is the one the successful call determines.
C5_Backoff ==
  \A p \in Cycles :
    LET k == Len(sleeps[p])
    IN /\ \A i \in 1..k : sleeps[p][i] = 60 + 2 * (i - 1)
       /\ pc[p] = "Backoff" => retry_delay[p] = 60 + 2 * (k - 1) /\ calls[p] = k
       /\ pc[p] = "Fetching" => retry_delay[p] = 60 + 2 * k /\ calls[p] = k
       /\ pc[p] = "Classifying" =>
            /\ retry_delay[p] = 60 + 2 * k
            /\ calls[p] = k + 1
            /\ response[p] \in Responses
            /\ latest[p] = (IF response[p].list = "some"
                            THEN response[p].first ELSE NoneNotif)

\* The remote call failed twice and then succeeded: sleeps of 60 and 62,
\* three calls, and a notification returned.
C5_Witness ==
  \E p \in Cycles :
    /\ pc[p] = "Classifying"
    /\ sleeps[p] = <<60, 62>>
    /\ calls[p] = 3
    /\ latest[p].kind = "Id"


\* C6: whatever the cursor, a successful fetch whose notification list is
\* empty or missing is classified Absent: the classification step goes
\* straight to the return, None is returned and the cursor is what it was
\* (an unset cursor stays unset).
C6_EmptyStep ==
  \A p \in Cycles :
    (/\ pc[p] = "Classifying"
     /\ response[p].list \in {"missing", "empty"}
     /\ pc'[p] # "Classifying"
     /\ handler' = "ready") =>
      /\ pc'[p] = "Returned"
      /\ verdict'[p] = "Absent"
      /\ result'[p] = NoneNotif
      /\ last_notification_id' = last_notification_id
      /\ last_notification_id' = cursor0[p]

\* C6: every classification of an empty or missing list is Absent, returns
\* None and leaves the cursor unchanged.
C6_EmptyIsAbsent == [][C6_EmptyStep]_vars

\* An empty fetch has returned None under an unset cursor.
C6_Witness ==
  \E p \in Cycles :
    /\ pc[p] = "Returned"
    /\ response[p] = EmptyList
    /\ verdict[p] = "Absent"
    /\ result[p] = NoneNotif
    /\ cursor0[p] = None
    /\ last_notification_id = None

\* C7: whatever the cursor, a fetched notification without an id is
\* Absent: the classification step returns None at once, with no exception,
\* no sleep and no further remote call, the cursor is unchanged, and the
\* cycle is over (position Returned with nothing to dispatch).
C7_NoIdStep ==
  \A p \in Cycles :
    (/\ pc[p] = "Classifying"
     /\ latest[p].kind = "NoId"
     /\ pc'[p] # "Classifying"
     /\ handler' = "ready") =>
      /\ pc'[p] = "Returned"
      /\ verdict'[p] = "Absent"
      /\ result'[p] = NoneNotif
      /\ last_notification_id' = last_notification_id
      /\ sleeps'[p] = sleeps[p]
      /\ outer_sleeps'[p] = outer_sleeps[p]
      /\ calls'[p] = calls[p]
      /\ retry_delay'[p] = retry_delay[p]
      /\ outer_delay'[p] = outer_delay[p]

\* C7: every classification of a notification without id returns None at
\* once and leaves the cursor, the sleeps and the remote calls unchanged.
C7_NoIdIsAbsent == [][C7_NoIdStep]_vars

\* A notification without id has been answered with None under a set cursor.
C7_Witness ==
  \E p \in Cycles :
    /\ pc[p] = "Returned"
    /\ latest[p] = NoIdNotif
    /\ result[p] = NoneNotif
    /\ cursor0[p] # None
    /\ last_notification_id = cursor0[p]

\* C8: when neither ENABLED flag is 1, send makes no deliver call on any
\* sink and no user lookup, also when a sender id is supplied, and raises
\* nothing.
C8_NoSinkNoCalls ==
  \A p \in Cycles :
    (pc[p] = "Dispatched" /\ pushbullet_state # 1 /\ webhook_state # 1) =>
      /\ sent[p].called
      /\ sent[p].pbCalls = 0
      /\ sent[p].dcCalls = 0
      /\ sent[p].lookups = 0
      /\ ~sent[p].raised

\* send has run with both sinks disabled and a sender id supplied.
C8_Witness ==
  \E p \in Cycles :
    /\ pc[p] = "Dispatched"
    /\ pushbullet_state # 1
    /\ webhook_state # 1
    /\ sent[p].called
    /\ sent[p].useridfrom # None

\* C9: a handler that has not yet ended a cycle in First or New (as after
\* a restart) has its cursor unset until it assigns one, whatever was
\* delivered before; and when the notification delivered last before the
\* restart is the one fetched, the verdict is First, the notification is
\* returned for dispatch again and the cursor becomes its id.
C9_RestartRedelivers ==
  /\ (handler = "ready" /\ fresh /\ \A q \in Cycles : pc[q] \notin {"Returned", "Dispatched"})
       => last_notification_id = None
  /\ \A p \in Cycles :
       (/\ pc[p] = "Returned"
        /\ fresh
        /\ deliveredEarlier
        /\ latest[p].kind = "Id"
        /\ lastDelivered = Some(latest[p].id)) =>
         /\ verdict[p] = "First"
         /\ result[p] = latest[p]
         /\ last_notification_id = Some(latest[p].id)

\* After a restart the notification delivered last before it was fetched
\* and returned again.
C9_Witness ==
  \E p \in Cycles :
    /\ pc[p] = "Returned"
    /\ fresh
    /\ deliveredEarlier
    /\ lastDelivered = Some(latest[p].id)
    /\ verdict[p] = "First"
    /\ result[p] = latest[p]

\* C10 as stated: a delivery failure of one sink is not re-raised by the
\* body of send when another enabled sink accepted the delivery in the
\* same call.
C10_NotReRaised ==
  \A p \in Cycles :
    (/\ pc[p] = "Dispatched"
     /\ sent[p].pbFailed \/ sent[p].dcFailed
     /\ Accepted(sent[p])) =>
      ~sent[p].raised

\* C10 as amended: a delivery failure of a sink is logged and re-raised by
\* the body of send, also when another enabled sink accepted the delivery
\* in the same call.
C10_ReRaised ==
  \A p \in Cycles :
    (pc[p] = "Dispatched" /\ (sent[p].pbFailed \/ sent[p].dcFailed)) =>
      /\ sent[p].logged
      /\ sent[p].raised

\* Pushbullet accepted the delivery, Discord's then failed, send raised.
C10_Witness ==
  \E p \in Cycles :
    /\ pc[p] = "Dispatched"
    /\ sent[p].pbCalls = 1 /\ ~sent[p].pbFailed
    /\ sent[p].dcCalls = 1 /\ sent[p].dcFailed
    /\ sent[p].logged
    /\ sent[p].raised


\* C11: send never touches the cursor. In every step in which a cycle's
\* send call runs, whatever its outcome (all sinks accept, a sink fails, the
\* sender lookup fails, no sink is enabled), last_notification_id after the
\* call is what it was before: no rollback and no advance.
C11_SendStep ==
  \A p \in Cycles :
    (pc[p] = "Returned" /\ pc'[p] = "Dispatched") =>
      /\ sent'[p].called
      /\ last_notification_id' = last_notification_id
      /\ last_notification_id' = Some(result[p].id)

\* C11: every send step leaves the cursor at the id handed to dispatch.
C11_DispatchKeepsCursor == [][C11_SendStep]_vars

\* A send call that raised has come back with the cursor still at the id
\* the cycle moved it to.
C11_Witness ==
  \E p \in Cycles :
    /\ pc[p] = "Dispatched"
    /\ sent[p].raised
    /\ cursor0[p] # None
    /\ last_notification_id = Some(result[p].id)
    /\ last_notification_id # cursor0[p]


\* C12: a failing remote fetch stays inside fetch_latest_notification. A
\* failed call leads to the sleep and the sleep to the next call, after any
\* number of failures: the only way out of the loop is a call that
\* succeeds, and nothing is raised or returned before. With sleeps that end
\* and a remote call that succeeds at some attempt, the invocation returns.
C12_LoopStep ==
  \A p \in Cycles :
    handler' = "ready" =>
      /\ (pc[p] = "Fetching" /\ pc'[p] # "Fetching") =>
           \/ /\ pc'[p] = "Backoff"
              /\ calls'[p] = calls[p] + 1
              /\ Len(sleeps'[p]) = Len(sleeps[p]) + 1
              /\ result'[p] = NoneNotif
              /\ latest'[p] = NoneNotif
           \/ /\ pc'[p] = "Classifying"
              /\ response'[p] \in Responses
      /\ (pc[p] = "Backoff" /\ pc'[p] # "Backoff") =>
           /\ pc'[p] = "Fetching"
           /\ result'[p] = NoneNotif

C12_FetchNeverSurfaces ==
  /\ [][C12_LoopStep]_vars
  /\ \A p \in Driver :
       (pc[p] \in {"Fetching", "Backoff"}) ~>
         (pc[p] = "Classifying" \/ handler # "ready")

\* After the largest number of failures the bounds allow, the invocation
\* is calling the remote again.
C12_Witness ==
  \E p \in Cycles :
    /\ pc[p] = "Fetching"
    /\ Len(sleeps[p]) = MaxFails
    /\ calls[p] = MaxFails
    /\ result[p] = NoneNotif


\* C13: a configuration in which one of the three required moodle keys is
\* absent or empty makes the construction of the handler fail: no handler
\* exists, no fetch cycle is started and the remote is never called, and
\* the failed construction is not tried again; the only thing that follows
\* it is the end of the process.
AllKeysPresent == config.url /\ config.user /\ config.pass

C13_FailedStep ==
  handler = "failed" =>
    /\ handler' \in {"failed", "none"}
    /\ \A p \in Cycles : pc'[p] = "Idle" /\ calls'[p] = 0

C13_MissingKeyIsFatal ==
  /\ [](handler # "none" /\ ~AllKeysPresent =>
          /\ handler = "failed"
          /\ ~logged_in
          /\ \A p \in Cycles :
               pc[p] = "Idle" /\ calls[p] = 0 /\ sleeps[p] = <<>>)
  /\ [][C13_FailedStep]_vars

\* The URL is configured and the user name is not: construction has failed
\* in __login.
C13_Witness ==
  /\ handler = "failed"
  /\ config.url
  /\ ~config.user
  /\ config.pass
  /\ \A p \in Cycles : pc[p] = "Idle" /\ calls[p] = 0


\* C14 (as stated): whenever no cycle is in flight, the cursor, if set, is
\* the id of the notification delivered last by this handler.
AllIdle == handler = "ready" /\ \A p \in Cycles : pc[p] = "Idle"

DeliveredNow == IF deliveredEarlier THEN None ELSE lastDelivered

C14_CursorIsDelivered ==
  (AllIdle /\ last_notification_id # None) =>
    DeliveredNow = last_notification_id

\* C14 (amended): the cursor is assigned when the notification is returned,
\* before it is dispatched. Whenever no cycle is in flight the cursor is the
\* id returned last, and what this handler has delivered is never ahead of
\* it; the cursor is ahead of delivery after a cycle whose dispatch failed
\* or found no sink enabled. Right after a dispatch that a sink accepted,
\* the cursor is the id delivered.
C14_CursorCoversDelivery ==
  /\ AllIdle =>
       /\ last_notification_id = lastReturned
       /\ DeliveredNow # None =>
            /\ last_notification_id # None
            /\ DeliveredNow[1] <= last_notification_id[1]
  /\ \A p \in Driver :
       (pc[p] = "Dispatched" /\ Accepted(sent[p])) =>
         /\ DeliveredNow = last_notification_id
         /\ DeliveredNow = Some(result[p].id)

\* No cycle is in flight, an earlier cycle has delivered a notification and
\* the cursor is already past it.
C14_Witness ==
  /\ AllIdle
  /\ DeliveredNow # None
  /\ last_notification_id # None
  /\ DeliveredNow[1] < last_notification_id[1]
  /\ last_notification_id = lastReturned


\* C15: within one handler lifetime and with cycles run one after the
\* other, fetch_newest_notification returns a notification exactly when
\* the verdict is First or New and None for Stale and Absent; each returned
\* id is greater than the one returned before, so no id is handed to
\* dispatch twice, also when the remote answers every poll with the same
\* latest notification.
C15_ReturnStep ==
  \A p \in Cycles :
    (pc[p] # "Returned" /\ pc'[p] = "Returned") =>
      /\ (result'[p] # NoneNotif) <=> (verdict'[p] \in {"First", "New"})
      /\ verdict'[p] \in {"First", "New", "Stale", "Absent"}
      /\ result'[p] # NoneNotif =>
           /\ result'[p] = latest[p]
           /\ lastReturned # None => result'[p].id > lastReturned[1]
           /\ lastReturned' = Some(result'[p].id)
      /\ result'[p] = NoneNotif => lastReturned' = lastReturned

C15_NoDuplicateHandOff ==
  /\ [][C15_ReturnStep]_vars
  /\ [](~duplicated)

\* The remote has answered with the notification that was returned by an
\* earlier cycle: the verdict is Stale and nothing is returned.
C15_Witness ==
  \E p \in Cycles :
    /\ pc[p] = "Returned"
    /\ verdict[p] = "Stale"
    /\ result[p] = NoneNotif
    /\ lastReturned = Some(latest[p].id)
    /\ last_notification_id = lastReturned


\* C16: a send call looks the sender up exactly once when the Discord sink
\* is enabled and a sender id was supplied, and not at all otherwise;
\* without a sender id the Discord message carries the default identity.
C16_LookupOncePerSend ==
  \A p \in Cycles :
    pc[p] = "Dispatched" =>
      /\ sent[p].lookups =
           IF webhook_state = 1 /\ sent[p].useridfrom # None THEN 1 ELSE 0
      /\ (sent[p].dcCalls = 1 /\ sent[p].useridfrom = None) =>
           sent[p].identity = DefaultIdentity


\* C17: the cursor is written only after a remote fetch has completed.
\* While a cycle is calling the remote, sleeping after a failure or
\* comparing, last_notification_id is what it was when the cycle started;
\* afterwards it is that value or the id of the notification the completed
\* fetch delivered, never anything else.
C17_CursorOnlyAfterFetch ==
  \A p \in Cycles :
    /\ pc[p] \in {"Fetching", "Backoff", "OuterBackoff", "Classifying",
                  "Updating"} =>
         last_notification_id = cursor0[p]
    /\ pc[p] \in {"Returned", "Dispatched"} =>
         \/ last_notification_id = cursor0[p]
         \/ /\ response[p] \in Responses
            /\ verdict[p] \in {"First", "New"}
            /\ latest[p] = FetchLatestResult(response[p])
            /\ last_notification_id = Some(latest[p].id)

\* The cycle started with the cursor set and is asleep after the largest
\* number of failed calls.
C17_Witness ==
  \E p \in Cycles :
    /\ pc[p] = "Backoff"
    /\ Len(sleeps[p]) = MaxFails
    /\ calls[p] = MaxFails
    /\ cursor0[p] # None
    /\ last_notification_id = cursor0[p]


\* C18: classifying is not re-entrant. The comparison with
\* last_notification_id and the assignment are separate steps, so when two
\* invocations of fetch_newest_notification interleave on one handler, an
\* assignment can lower the cursor and one id can be returned by both; a
\* lowered cursor or a twice-returned id occurs only after a cycle was
\* started while another one was in flight, never with cycles run one after
\* the other.
C18_RaceNeedsOverlap == (decreased \/ duplicated) => overlapped

\* Both have happened: the cursor was lowered by the cycle holding the older
\* id and the two cycles have returned the same id.
C18_Witness ==
  /\ overlapped
  /\ decreased
  /\ duplicated


\* C19: a handler that finished construction is authenticated: logged_in
\* is true whenever a handler exists and whenever a cycle calls the remote.
C19_ConstructedIsAuthenticated ==
  /\ handler = "ready" => logged_in
  /\ \A p \in Cycles : pc[p] \in {"Fetching", "Backoff"} => logged_in


\* C20: a send call in which no delivery and no lookup fails delivers
\* exactly once to each sink whose ENABLED flag is 1 and not at all to a
\* sink whose flag is not 1, Pushbullet before Discord, and leaves both
\* flags as they were.
C20_SendStep ==
  \A p \in Cycles :
    (pc[p] = "Returned" /\ pc'[p] = "Dispatched") =>
      /\ pushbullet_state' = pushbullet_state
      /\ webhook_state' = webhook_state
      /\ ~sent'[p].logged =>
           /\ sent'[p].pbCalls = IF pushbullet_state = 1 THEN 1 ELSE 0
           /\ sent'[p].dcCalls = IF webhook_state = 1 THEN 1 ELSE 0
           /\ sent'[p].order =
                (IF pushbullet_state = 1 THEN <<"pushbullet">> ELSE <<>>) \o
                (IF webhook_state = 1 THEN <<"discord">> ELSE <<>>)
           /\ ~sent'[p].raised

C20_EachEnabledSinkOnce == [][C20_SendStep]_vars

\* Both sinks are enabled and both have accepted the delivery.
C20_Witness ==
  \E p \in Cycles :
    /\ pc[p] = "Dispatched"
    /\ pushbullet_state = 1
    /\ webhook_state = 1
    /\ ~sent[p].logged
    /\ sent[p].order = <<"pushbullet", "discord">>
    /\ sent[p].pbCalls = 1
    /\ sent[p].dcCalls = 1

====
